---- MODULE Spec2Model ----
(***************************************************************************)
(* State-machine model of shared_models/database.py: configuration         *)
(* validation and best-effort database creation at module load, the        *)
(* get_db() session provider, and the init_db()/recreate_db() schema       *)
(* operations.                                                             *)
(*                                                                         *)
(* Strings that the code only compares or copies are TLA+ strings.  The    *)
(* values of the environment variables are sequences of one-character      *)
(* strings, because the code both tests them for emptiness and             *)
(* interpolates DB_NAME into SQL text that the server parses.              *)
(***************************************************************************)
EXTENDS Naturals, Sequences, FiniteSets

\* ------------------------------------------------------------- bounds
\* Number of processes (containers) importing the module concurrently.
NumProcs == 2

Procs == 1..NumProcs

\* ---------------------------------------------------- python values
\* os.environ.get(k) is None or a str; None is kept apart from "".
None == [isNone |-> TRUE, s |-> <<>>]

Str(s) == [isNone |-> FALSE, s |-> s]

\* Faulty variant of Truthy: tests `is not None`, so "" counts as a value.
TruthyNotNone(v) == ~v.isNone

\* Python truthiness of an Optional[str]: None and "" are falsy.
Truthy(v) == ~v.isNone /\ Len(v.s) > 0

\* os.environ.get(k): the environment is a mapping from the names that are
\* set to their values.
EnvGet(e, k) == IF k \in DOMAIN e THEN Str(e[k]) ELSE None

\* os.environ.get(k, d)
EnvGetDefault(e, k, d) == IF k \in DOMAIN e THEN Str(e[k]) ELSE Str(d)

\* The keys of the dict literal of the validation, in insertion order.
RequiredVars == <<"DB_HOST", "DB_PORT", "DB_NAME", "DB_USER", "DB_PASSWORD">>

RequiredNames == {RequiredVars[i] : i \in DOMAIN RequiredVars}

\* Values an environment variable takes in the model: empty, or a short text.
\* DB_NAME ranges over a lower-case name, a mixed-case name and a name with a
\* character that is not an identifier character.
NameValues == {<<>>, <<"m">>, <<"M">>, <<"m", "-", "m">>}

PlainValues == {<<>>, <<"x">>}

ValuesOf(k) == IF k = "DB_NAME" THEN NameValues ELSE PlainValues

\* Every environment over the five required names: any subset set, each to
\* any of its values.
RequiredEnvs ==
    UNION { {f \in [D -> NameValues \cup PlainValues] :
                \A k \in D : f[k] \in ValuesOf(k)} : D \in SUBSET RequiredNames }

\* all([...]) of the validation.
AllSet(e) == \A i \in DOMAIN RequiredVars : Truthy(EnvGet(e, RequiredVars[i]))

RECURSIVE MissingFrom(_, _)
\* The list comprehension: the names, in dict order from index i on, whose
\* value is falsy.
MissingFrom(e, i) ==
    IF i > Len(RequiredVars) THEN <<>>
    ELSE (IF ~Truthy(EnvGet(e, RequiredVars[i])) THEN <<RequiredVars[i]>> ELSE <<>>)
         \o MissingFrom(e, i + 1)

missing_vars(e) == MissingFrom(e, 1)

\* Raised by the validation.
ValueError(names) == [type |-> "ValueError", names |-> names]

NoError == [type |-> "none", names |-> <<>>]

\* ------------------------------------------------ the database server
\* The maintenance database the administrative connection goes to.
MaintenanceDb == <<"p">>

\* How the server reads an unquoted identifier: it folds it to lower case.
Lower(c) == IF c = "M" THEN "m" ELSE c

Fold(name) == [i \in DOMAIN name |-> Lower(name[i])]

\* Whether the text is an unquoted identifier at all.
IsIdentifier(name) == Len(name) > 0 /\ \A i \in DOMAIN name : name[i] # "-"

\* SELECT 1 FROM pg_database WHERE datname=:name, with the name bound as a
\* parameter: an exact comparison.
CatalogHas(dbs, name) == name \in dbs

\* The name CREATE DATABASE {DB_NAME} names: DB_NAME is interpolated into
\* the statement text unquoted, so the server parses it as an identifier.
CreateTarget(name) == Fold(name)

\* The server's answer to CREATE DATABASE {DB_NAME}.
CreateOutcome(dbs, name) ==
    IF ~IsIdentifier(name) THEN "syntax_error"
    ELSE IF CreateTarget(name) \in dbs THEN "already_exists"
    ELSE "created"

VARIABLES
    env,          \* env[p]: the environment of process p
    proc,         \* proc[p]: process p's module load (see NewProc)
    databases,    \* the server's catalog: the names of its databases
    createCount,  \* how many CREATE DATABASE statements succeeded
    databases0,   \* the catalog before any process started
    sess,         \* sess[s]: the get_db() generator s and its session
    pool,         \* the pooled engine's connections
    public,       \* the committed state of the target database's schema
    tx,           \* the transaction of the running schema operation
    op,           \* the running init_db() / recreate_db() call
    prev,         \* the call that ran before it
    counters      \* the server's next table oid and row id; calls made

loadVars == <<env, proc, databases, createCount, databases0>>

sessVars == <<sess, pool>>

schemaVars == <<public, tx, op, prev, counters>>

vars == <<loadVars, sessVars, schemaVars>>

\* The pool's parameters, as passed to create_async_engine.
pool_size == 10

max_overflow == 20

NoEngine == [built |-> FALSE, url |-> <<>>, pool_size |-> 0, max_overflow |-> 0]

\* A process before it runs the module's top-level code.
\*   pc           where it is in that code
\*   raised       the exception that ended the module load
\*   logs         the log records written
\*   adminConns   administrative connections opened
\*   statements   the statements sent on them
\*   exists       what the catalog query answered
\*   failed       the step inside the try block that raised
\*   engine       the pooled engine, once constructed
\*   dbAtEngine   whether the target database existed when it was constructed
\*   events       the steps of the startup sequence taken so far
NewProc ==
    [pc |-> "start", raised |-> NoError, logs |-> {}, adminConns |-> 0,
     statements |-> <<>>, exists |-> "unknown", failed |-> "none",
     engine |-> NoEngine, dbAtEngine |-> "unknown", events |-> <<>>]

DB_NAME(p) == EnvGet(env[p], "DB_NAME").s

\* Faulty variant of AutoCreateDisabled: only "0" switches the check off.
AutoCreateDisabledByZero(e) ==
    EnvGetDefault(e, "DB_AUTO_CREATE", <<"1">>).s = <<"0">>

\* os.environ.get("DB_AUTO_CREATE", "1") != "1"
AutoCreateDisabled(e) == EnvGetDefault(e, "DB_AUTO_CREATE", <<"1">>).s # <<"1">>

\* f"postgresql+asyncpg://{DB_USER}:{DB_PASSWORD}@{DB_HOST}:{DB_PORT}/{DB_NAME}"
DATABASE_URL(e) ==
    <<"postgresql+asyncpg://">> \o e["DB_USER"] \o <<":">> \o e["DB_PASSWORD"]
    \o <<"@">> \o e["DB_HOST"] \o <<":">> \o e["DB_PORT"] \o <<"/">> \o e["DB_NAME"]

\* Number of get_db() generators the framework runs concurrently.
NumSessions == 2

Sessions == 1..NumSessions

\* A generator that has not been started.  conn is the pooled connection the
\* session holds (0: none) and used the last one it held; closes counts the
\* calls of session.close() and noopCloses those of them that found nothing
\* to release.
NewSess ==
    [pc |-> "new", conn |-> 0, used |-> 0, exit |-> "none",
     outcome |-> "none", closes |-> 0, noopCloses |-> 0]

\* The pool: the connections checked out, those idle in the queue, and how
\* many it has opened.
EmptyPool == [out |-> {}, idle |-> {}, opened |-> 0]

\* Calls of init_db() and recreate_db() made in one run.
MaxOps == 2

\* Rows the application inserts in one run.
MaxRows == 2

\* Base.metadata.sorted_tables: the tables the models define, in the order
\* create_all visits them.
MetaOrder == <<"meetings", "users">>

MetaTables == {MetaOrder[i] : i \in DOMAIN MetaOrder}

\* An object of the public schema that no model defines.
OtherTables == {"alembic_version"}

AllTables == MetaTables \cup OtherTables

\* The oid of each table that exists before the first call.
InitialOid(n) == CASE n = "meetings" -> 1 [] n = "users" -> 2 [] OTHER -> 3

FirstFreeOid == Cardinality(AllTables) + 1

NoTables == [n \in {} |-> 0]

\* A schema: whether it exists, and its tables, each with the oid the server
\* gave it at creation and the ids of its rows.
PublicWith(S) ==
    [exists |-> TRUE,
     tables |-> [n \in S |-> [oid |-> InitialOid(n), rows |-> {}]]]

\* No transaction: nothing dropped or created that is not committed.
NoTx ==
    [active |-> FALSE, schemaDropped |-> FALSE, schemaCreated |-> FALSE,
     dropped |-> {}, created |-> NoTables]

\* No call.
\*   failed     the step that raised ("none": no step did)
\*   envFault   whether it was the environment that failed that step
\*   committed  whether the call's transaction has been committed
\*   pre        the committed schema when the call was made
\*   mark       the next row id when its transaction ended
\*   post       the committed schema when the call ended
NoOp ==
    [name |-> "none", pc |-> "idle", failed |-> "none", envFault |-> FALSE,
     result |-> "none", logs |-> {}, committed |-> FALSE,
     pre |-> PublicWith({}), mark |-> 0, post |-> PublicWith({})]

NoPrev == [name |-> "none", result |-> "none", post |-> PublicWith({})]

\* The server's next table oid and row id, and the calls made so far.
NoCalls == [oid |-> FirstFreeOid, row |-> 1, ops |-> 0]

\* An environment with DB_AUTO_CREATE set to a, or unset when a is <<>>.
WithAuto(base, a) ==
    IF a = <<>> THEN base
    ELSE [k \in DOMAIN base \cup {"DB_AUTO_CREATE"} |->
            IF k = "DB_AUTO_CREATE" THEN a ELSE base[k]]

\* The settings of DB_AUTO_CREATE, unset first.
AutoChoices == <<<<>>, <<"1">>, <<"0">>, <<"t">>>>

\* The processes are containers of one deployment: they share the five
\* connection variables; DB_AUTO_CREATE is chosen per process.  The
\* processes run the same code, so one assignment stands for all its
\* permutations: the one in the order of AutoChoices.
InitLoad ==
    /\ \E base \in RequiredEnvs :
         \E auto \in [Procs -> DOMAIN AutoChoices] :
            /\ \A p, q \in Procs : p <= q => auto[p] <= auto[q]
            /\ env = [p \in Procs |-> WithAuto(base, AutoChoices[auto[p]])]
    /\ proc = [p \in Procs |-> NewProc]
    /\ databases \in {{MaintenanceDb}, {MaintenanceDb, <<"m">>},
                      {MaintenanceDb, <<"M">>}}
    /\ databases0 = databases
    /\ createCount = 0
    /\ sess = [s \in Sessions |-> NewSess]
    /\ pool = EmptyPool
    /\ public = PublicWith(AllTables)
    /\ tx = NoTx
    /\ op = NoOp
    /\ prev = NoPrev
    /\ counters = NoCalls

\* ------------------------------------------------------- module load
\* Process p moves to pc `to`, having taken startup step `ev`.
Step(p, to, ev) == [proc[p] EXCEPT !.pc = to, !.events = Append(@, ev)]

\* A step inside the try block raises: control goes to the except clause.
Fail(p, step) == [proc[p] EXCEPT !.pc = "except", !.failed = step]

\* Lines 15-37: read the environment, validate, build the URLs.
Validate(p) ==
    /\ proc[p].pc = "start"
    /\ proc' = [proc EXCEPT ![p] =
         IF ~AllSet(env[p])
         THEN [proc[p] EXCEPT !.pc = "config_error",
                              !.raised = ValueError(missing_vars(env[p]))]
         ELSE Step(p, "validated", "validated")]
    /\ UNCHANGED <<env, databases, createCount, databases0, sessVars,
                   schemaVars>>

\* Line 64 and lines 46-49: the call, and the DB_AUTO_CREATE switch.
EnsureCall(p) ==
    /\ proc[p].pc = "validated"
    /\ proc' = [proc EXCEPT ![p] =
         IF AutoCreateDisabled(env[p])
         THEN [Step(p, "ensured", "ensure_call") EXCEPT
                  !.logs = @ \cup {"info:auto_create_disabled"},
                  !.events = Append(@, "ensure_return")]
         ELSE Step(p, "create_engine", "ensure_call")]
    /\ UNCHANGED <<env, databases, createCount, databases0, sessVars,
                   schemaVars>>

\* Line 51: create_engine(admin_url, isolation_level="AUTOCOMMIT").
EnsureCreateEngine(p) ==
    /\ proc[p].pc = "create_engine"
    /\ \/ proc' = [proc EXCEPT ![p].pc = "connect"]
       \/ proc' = [proc EXCEPT ![p] = Fail(p, "create_engine")]
    /\ UNCHANGED <<env, databases, createCount, databases0, sessVars,
                   schemaVars>>

\* Line 52: admin_engine.connect().
EnsureConnect(p) ==
    /\ proc[p].pc = "connect"
    /\ \/ proc' = [proc EXCEPT ![p].pc = "query", ![p].adminConns = @ + 1]
       \/ proc' = [proc EXCEPT ![p] = Fail(p, "connect")]
    /\ UNCHANGED <<env, databases, createCount, databases0, sessVars,
                   schemaVars>>

\* Lines 53-54 and 58-59: the catalog query and its branch.  Leaving the
\* with block by the else branch returns from the function.
EnsureQuery(p) ==
    /\ proc[p].pc = "query"
    /\ \/ proc' = [proc EXCEPT ![p] =
            IF CatalogHas(databases, DB_NAME(p))
            THEN [Step(p, "ensured", "ensure_return") EXCEPT
                     !.statements = Append(@, "SELECT"),
                     !.exists = "found",
                     !.logs = @ \cup {"debug:already_exists"}]
            ELSE [proc[p] EXCEPT
                     !.pc = "create",
                     !.statements = Append(@, "SELECT"),
                     !.exists = "absent",
                     !.logs = @ \cup {"warning:not_found"}]]
       \/ proc' = [proc EXCEPT ![p] =
            [Fail(p, "query") EXCEPT !.statements = Append(@, "SELECT")]]
    /\ UNCHANGED <<env, databases, createCount, databases0, sessVars,
                   schemaVars>>

\* Lines 56-57: CREATE DATABASE {DB_NAME} on the autocommit connection.  The
\* statement raises when the server refuses it, or when the environment
\* fails it (lost connection, missing privilege).
EnsureCreate(p) ==
    /\ proc[p].pc = "create"
    /\ \/ /\ CreateOutcome(databases, DB_NAME(p)) = "created"
          /\ databases' = databases \cup {CreateTarget(DB_NAME(p))}
          /\ createCount' = createCount + 1
          /\ proc' = [proc EXCEPT ![p] =
               [Step(p, "ensured", "ensure_return") EXCEPT
                   !.statements = Append(@, "CREATE"),
                   !.logs = @ \cup {"info:created"}]]
       \/ /\ CreateOutcome(databases, DB_NAME(p)) # "created"
          /\ proc' = [proc EXCEPT ![p] =
               [Fail(p, CreateOutcome(databases, DB_NAME(p))) EXCEPT
                   !.statements = Append(@, "CREATE")]]
          /\ UNCHANGED <<databases, createCount>>
       \/ /\ proc' = [proc EXCEPT ![p] =
               [Fail(p, "create") EXCEPT !.statements = Append(@, "CREATE")]]
          /\ UNCHANGED <<databases, createCount>>
    /\ UNCHANGED <<env, databases0, sessVars, schemaVars>>

\* Faulty variant of EnsureExcept: the except clause logs and re-raises.
EnsureExceptRaises(p) ==
    /\ proc[p].pc = "except"
    /\ proc' = [proc EXCEPT ![p] =
         [proc[p] EXCEPT !.pc = "load_error",
                         !.raised = [type |-> proc[p].failed, names |-> <<>>],
                         !.logs = @ \cup {"error:auto_create_failed"}]]
    /\ UNCHANGED <<env, databases, createCount, databases0, sessVars,
                   schemaVars>>

\* Lines 60-61: except Exception: log the error and return.
EnsureExcept(p) ==
    /\ proc[p].pc = "except"
    /\ proc' = [proc EXCEPT ![p] =
         [Step(p, "ensured", "ensure_return") EXCEPT
             !.logs = @ \cup {"error:auto_create_failed"}]]
    /\ UNCHANGED <<env, databases, createCount, databases0, sessVars,
                   schemaVars>>

\* Faulty variant of BuildEngine: the engine is constructed right after the
\* validation, before the existence check is called.
BuildEngineBeforeCheck(p) ==
    /\ proc[p].pc = "validated"
    /\ proc' = [proc EXCEPT ![p] =
         [Step(p, "engine", "engine") EXCEPT
             !.engine = [built |-> TRUE, url |-> DATABASE_URL(env[p]),
                         pool_size |-> pool_size,
                         max_overflow |-> max_overflow],
             !.dbAtEngine = IF CatalogHas(databases, DB_NAME(p))
                            THEN "present" ELSE "missing"]]
    /\ UNCHANGED <<env, databases, createCount, databases0, sessVars,
                   schemaVars>>

\* Lines 67-72: the pooled async engine.
BuildEngine(p) ==
    /\ proc[p].pc = "ensured"
    /\ proc' = [proc EXCEPT ![p] =
         [Step(p, "engine", "engine") EXCEPT
             !.engine = [built |-> TRUE, url |-> DATABASE_URL(env[p]),
                         pool_size |-> pool_size,
                         max_overflow |-> max_overflow],
             !.dbAtEngine = IF CatalogHas(databases, DB_NAME(p))
                            THEN "present" ELSE "missing"]]
    /\ UNCHANGED <<env, databases, createCount, databases0, sessVars,
                   schemaVars>>

\* Lines 73-80: the session factory and the sync engine.
BuildRest(p) ==
    /\ proc[p].pc = "engine"
    /\ proc' = [proc EXCEPT ![p] = Step(p, "ready", "ready")]
    /\ UNCHANGED <<env, databases, createCount, databases0, sessVars,
                   schemaVars>>

NextLoad ==
    \E p \in Procs :
        \/ Validate(p)
        \/ EnsureCall(p)
        \/ EnsureCreateEngine(p)
        \/ EnsureConnect(p)
        \/ EnsureQuery(p)
        \/ EnsureCreate(p)
        \/ EnsureExcept(p)
        \/ BuildEngine(p)
        \/ BuildRest(p)

\* The state of a process whose module load has completed, and of the
\* server it then talks to: the starting point of the operations below.
LoadedEnv ==
    [k \in RequiredNames |-> IF k = "DB_NAME" THEN <<"m">> ELSE <<"x">>]

LoadedProc ==
    [pc |-> "ready", raised |-> NoError, logs |-> {"debug:already_exists"},
     adminConns |-> 1, statements |-> <<"SELECT">>, exists |-> "found",
     failed |-> "none",
     engine |-> [built |-> TRUE, url |-> DATABASE_URL(LoadedEnv),
                 pool_size |-> pool_size, max_overflow |-> max_overflow],
     dbAtEngine |-> "present",
     events |-> <<"validated", "ensure_call", "ensure_return", "engine", "ready">>]

LoadedDatabases == {MaintenanceDb, <<"m">>}

\* ----------------------------------------------------------- get_db
\* A loaded process, no generator started yet.
InitSessions ==
    /\ env = [p \in Procs |-> LoadedEnv]
    /\ proc = [p \in Procs |-> LoadedProc]
    /\ databases = LoadedDatabases
    /\ databases0 = LoadedDatabases
    /\ createCount = 0
    /\ sess = [s \in Sessions |-> NewSess]
    /\ pool = EmptyPool
    /\ public = PublicWith(AllTables)
    /\ tx = NoTx
    /\ op = NoOp
    /\ prev = NoPrev
    /\ counters = NoCalls

\* The pool hands out an idle connection, or opens one while it holds fewer
\* than pool_size + max_overflow.
CanCheckout(pl) ==
    pl.idle # {} \/ Cardinality(pl.out) < pool_size + max_overflow

CheckoutConn(pl) ==
    IF pl.idle # {} THEN CHOOSE c \in pl.idle : \A d \in pl.idle : c <= d
    ELSE pl.opened + 1

Checkout(pl) ==
    LET c == CheckoutConn(pl)
    IN [out |-> pl.out \cup {c}, idle |-> pl.idle \ {c},
        opened |-> IF c \in pl.idle THEN pl.opened ELSE pl.opened + 1]

\* A returned connection goes back to the queue, or is discarded when the
\* queue already holds pool_size connections.
Checkin(pl, c) ==
    [pl EXCEPT !.out = @ \ {c},
               !.idle = IF Cardinality(@) < pool_size THEN @ \cup {c} ELSE @]

\* session.close(): releases the connection the session holds, if any;
\* on a session that holds none it changes nothing.
SessionClose(r) ==
    [r EXCEPT !.conn = 0,
              !.closes = @ + 1,
              !.noopCloses = IF r.conn = 0 THEN @ + 1 ELSE @]

PoolAfterClose(pl, r) == IF r.conn = 0 THEN pl ELSE Checkin(pl, r.conn)

\* Lines 85-87: async_session_local() is entered and the session yielded.
GetDbEnter(s) ==
    /\ sess[s].pc = "new"
    /\ sess' = [sess EXCEPT ![s].pc = "yielded"]
    /\ UNCHANGED <<pool, loadVars, schemaVars>>

\* The consumer uses the session: its first statement checks a connection
\* out of the pool.
ConsumerExecute(s) ==
    /\ sess[s].pc = "yielded"
    /\ sess[s].conn = 0
    /\ CanCheckout(pool)
    /\ sess' = [sess EXCEPT ![s].conn = CheckoutConn(pool),
                            ![s].used = CheckoutConn(pool)]
    /\ pool' = Checkout(pool)
    /\ UNCHANGED <<loadVars, schemaVars>>

\* The consumer commits: the session gives its connection back.
ConsumerCommit(s) ==
    /\ sess[s].pc = "yielded"
    /\ sess[s].conn # 0
    /\ sess' = [sess EXCEPT ![s].conn = 0]
    /\ pool' = Checkin(pool, sess[s].conn)
    /\ UNCHANGED <<loadVars, schemaVars>>

\* How the generator ends once its cleanup is done.
Outcome(how) ==
    CASE how = "normal" -> "exhausted"
      [] how = "exception" -> "propagated"
      [] OTHER -> "closed"

\* Faulty variant of ConsumerExit: the yield stands outside any try/finally or
\* context manager, so only a normal resumption reaches the close.
ConsumerExitUnprotected(s, how) ==
    /\ sess[s].pc = "yielded"
    /\ sess' = [sess EXCEPT ![s].pc = IF how = "normal" THEN "finally" ELSE "done",
                            ![s].exit = how,
                            ![s].outcome = IF how = "normal" THEN @ ELSE Outcome(how)]
    /\ UNCHANGED <<pool, loadVars, schemaVars>>

\* Line 87: the consuming block ends and the generator is resumed at the
\* yield: normally, by an exception thrown into it, or by the caller
\* closing it early.  Each way enters the finally clause.
ConsumerExit(s, how) ==
    /\ sess[s].pc = "yielded"
    /\ sess' = [sess EXCEPT ![s].pc = "finally", ![s].exit = how]
    /\ UNCHANGED <<pool, loadVars, schemaVars>>

\* Lines 88-90: finally: await session.close().
FinallyClose(s) ==
    /\ sess[s].pc = "finally"
    /\ sess' = [sess EXCEPT ![s] = [SessionClose(sess[s]) EXCEPT !.pc = "aexit"]]
    /\ pool' = PoolAfterClose(pool, sess[s])
    /\ UNCHANGED <<loadVars, schemaVars>>

\* Line 85: leaving the async with block closes the session again; then
\* the generator ends the way the block was left.
ContextExit(s) ==
    /\ sess[s].pc = "aexit"
    /\ sess' = [sess EXCEPT ![s] =
         [SessionClose(sess[s]) EXCEPT
             !.pc = "done",
             !.outcome = Outcome(sess[s].exit)]]
    /\ pool' = PoolAfterClose(pool, sess[s])
    /\ UNCHANGED <<loadVars, schemaVars>>

NextSessions ==
    \E s \in Sessions :
        \/ GetDbEnter(s)
        \/ ConsumerExecute(s)
        \/ ConsumerCommit(s)
        \/ \E how \in {"normal", "exception", "close"} : ConsumerExit(s, how)
        \/ FinallyClose(s)
        \/ ContextExit(s)

\* ----------------------------------------- init_db and recreate_db
\* The database a loaded process finds: the public schema exists, with any
\* of the tables already in it and no rows yet.
InitSchema ==
    /\ env = [p \in Procs |-> LoadedEnv]
    /\ proc = [p \in Procs |-> LoadedProc]
    /\ databases = LoadedDatabases
    /\ databases0 = LoadedDatabases
    /\ createCount = 0
    /\ sess = [s \in Sessions |-> NewSess]
    /\ pool = EmptyPool
    /\ public \in {PublicWith(S) : S \in SUBSET AllTables}
    /\ tx = NoTx
    /\ op = NoOp
    /\ prev = NoPrev
    /\ counters = NoCalls

\* What the transaction sees: the committed state with its own changes.
ViewSchemaExists(pub, t) ==
    IF t.schemaDropped THEN t.schemaCreated ELSE pub.exists \/ t.schemaCreated

ViewTables(pub, t) == (DOMAIN pub.tables \ t.dropped) \cup DOMAIN t.created

\* COMMIT: the transaction's changes become the committed state.
Apply(pub, t) ==
    [exists |-> ViewSchemaExists(pub, t),
     tables |-> [n \in ViewTables(pub, t) |->
                   IF n \in DOMAIN t.created
                   THEN [oid |-> t.created[n], rows |-> {}]
                   ELSE pub.tables[n]]]

\* Faulty variant of Rollback: each DDL statement was committed as it ran.
RollbackKeepsChanges(pub, t) == Apply(pub, t)

\* ROLLBACK, when the block of engine.begin() is left by an exception: with
\* transactional DDL the committed state is untouched.
Rollback(pub, t) == pub

\* DROP SCHEMA public CASCADE: the schema and every object in it.
DropSchemaError(pub, t) ==
    IF ViewSchemaExists(pub, t) THEN "none" ELSE "InvalidSchemaName"

DropSchemaCascade(pub, t) ==
    [t EXCEPT !.schemaDropped = TRUE, !.schemaCreated = FALSE,
              !.dropped = DOMAIN pub.tables, !.created = NoTables]

\* CREATE SCHEMA public.
CreateSchemaError(pub, t) ==
    IF ViewSchemaExists(pub, t) THEN "DuplicateSchema" ELSE "none"

CreateSchema(pub, t) == [t EXCEPT !.schemaCreated = TRUE]

Extend(f, k, v) == [x \in DOMAIN f \cup {k} |-> IF x = k THEN v ELSE f[x]]

RECURSIVE CreateAllFrom(_, _, _, _, _, _, _)
\* Base.metadata.create_all(checkfirst=...): for each table in order, skip
\* it if checkfirst finds it, else CREATE TABLE.  `limit` is the index of the
\* table at which the environment fails the call (past the end: nowhere).
CreateAllFrom(i, visible, schemaExists, checkfirst, limit, created, oid) ==
    IF i > Len(MetaOrder) THEN [error |-> "none", created |-> created, oid |-> oid]
    ELSE IF i = limit THEN [error |-> "fault", created |-> created, oid |-> oid]
    ELSE IF checkfirst /\ MetaOrder[i] \in visible
         THEN CreateAllFrom(i + 1, visible, schemaExists, checkfirst, limit,
                            created, oid)
    ELSE IF ~schemaExists
         THEN [error |-> "InvalidSchemaName", created |-> created, oid |-> oid]
    ELSE IF MetaOrder[i] \in visible
         THEN [error |-> "DuplicateTable", created |-> created, oid |-> oid]
    ELSE CreateAllFrom(i + 1, visible \cup {MetaOrder[i]}, schemaExists,
                       checkfirst, limit, Extend(created, MetaOrder[i], oid),
                       oid + 1)

create_all(pub, t, checkfirst, limit, oid) ==
    CreateAllFrom(1, ViewTables(pub, t), ViewSchemaExists(pub, t), checkfirst,
                  limit, t.created, oid)

\* The indexes at which the environment may fail create_all, and the one
\* that stands for no failure.
CreateAllLimits == 1..(Len(MetaOrder) + 1)

\* Faulty variant of InitDbCheckFirst: create_all is told not to look first.
InitDbNoCheckFirst == FALSE

\* checkfirst as init_db passes it, and as recreate_db leaves it defaulted.
InitDbCheckFirst == TRUE

RecreateCheckFirst == TRUE

\* The call is made: the opening log record, then the try block.
Call(name, record) ==
    /\ op.pc \in {"idle", "done"}
    /\ counters.ops < MaxOps
    /\ prev' = [name |-> op.name, result |-> op.result, post |-> op.post]
    /\ op' = [NoOp EXCEPT !.name = name, !.pc = "begin", !.logs = {record},
                          !.pre = public]
    /\ counters' = [counters EXCEPT !.ops = @ + 1]
    /\ UNCHANGED <<public, tx, loadVars, sessVars>>

\* A step raises: the block of engine.begin() is left by the exception, the
\* transaction is rolled back, and control goes to the except clause.
Raise(step, byEnv, t) ==
    /\ op' = [op EXCEPT !.pc = "except", !.failed = step, !.envFault = byEnv,
                        !.mark = counters.row]
    /\ public' = Rollback(public, t)
    /\ tx' = NoTx

\* engine.begin(): a connection and a transaction on it.
Begin(next) ==
    /\ op.pc = "begin"
    /\ \/ /\ tx' = [NoTx EXCEPT !.active = TRUE]
          /\ op' = [op EXCEPT !.pc = next]
          /\ UNCHANGED public
       \/ Raise("begin", TRUE, tx)
    /\ UNCHANGED <<prev, counters, loadVars, sessVars>>

\* conn.run_sync(Base.metadata.create_all, ...)
CreateAll(checkfirst) ==
    /\ op.pc = "create_all"
    /\ \E limit \in CreateAllLimits :
         LET r == create_all(public, tx, checkfirst, limit, counters.oid)
         IN /\ counters' = [counters EXCEPT !.oid = r.oid]
            /\ IF r.error = "none"
               THEN /\ tx' = [tx EXCEPT !.created = r.created]
                    /\ op' = [op EXCEPT !.pc = "commit"]
                    /\ UNCHANGED public
               ELSE Raise(IF r.error = "fault" THEN "create_all" ELSE r.error,
                          r.error = "fault",
                          [tx EXCEPT !.created = r.created])
    /\ UNCHANGED <<prev, loadVars, sessVars>>

\* Leaving the block of engine.begin() commits; the closing log record
\* follows and the call returns.  A commit the environment fails (a lost
\* connection) raises, and the server may or may not have committed.
Commit(record) ==
    /\ op.pc = "commit"
    /\ \/ /\ public' = Apply(public, tx)
          /\ op' = [op EXCEPT !.pc = "done", !.result = "returned",
                              !.committed = TRUE, !.logs = @ \cup {record},
                              !.mark = counters.row,
                              !.post = Apply(public, tx)]
       \/ \E applied \in BOOLEAN :
            /\ public' = IF applied THEN Apply(public, tx) ELSE public
            /\ op' = [op EXCEPT !.pc = "except", !.failed = "commit",
                                !.envFault = TRUE, !.committed = applied,
                                !.mark = counters.row]
    /\ tx' = NoTx
    /\ UNCHANGED <<prev, counters, loadVars, sessVars>>

\* Faulty variant of Except: the error is logged and swallowed.
ExceptSwallows(record) ==
    /\ op.pc = "except"
    /\ op' = [op EXCEPT !.pc = "done", !.result = "returned",
                        !.logs = @ \cup {record}, !.post = public]
    /\ UNCHANGED <<public, tx, prev, counters, loadVars, sessVars>>

\* except Exception as e: logger.error(..., exc_info=True); raise
Except(record) ==
    /\ op.pc = "except"
    /\ op' = [op EXCEPT !.pc = "done", !.result = "raised",
                        !.logs = @ \cup {record}, !.post = public]
    /\ UNCHANGED <<public, tx, prev, counters, loadVars, sessVars>>

\* --- init_db, lines 93-105
InitDbCall == Call("init_db", "info:initializing")

InitDbBegin == op.name = "init_db" /\ Begin("create_all")

InitDbCreateAll == op.name = "init_db" /\ CreateAll(InitDbCheckFirst)

InitDbCommit == op.name = "init_db" /\ Commit("info:tables_created")

InitDbExcept == op.name = "init_db" /\ Except("error:init_failed")

\* --- recreate_db, lines 108-133
RecreateCall == Call("recreate_db", "warning:dangerous_operation")

RecreateBegin == op.name = "recreate_db" /\ Begin("drop")

\* Line 118: DROP SCHEMA public CASCADE
RecreateDrop ==
    /\ op.name = "recreate_db"
    /\ op.pc = "drop"
    /\ \/ /\ DropSchemaError(public, tx) = "none"
          /\ tx' = DropSchemaCascade(public, tx)
          /\ op' = [op EXCEPT !.pc = "create_schema",
                              !.logs = @ \cup {"warning:schema_dropped"}]
          /\ UNCHANGED public
       \/ /\ DropSchemaError(public, tx) # "none"
          /\ Raise(DropSchemaError(public, tx), FALSE, tx)
       \/ Raise("drop", TRUE, tx)
    /\ UNCHANGED <<prev, counters, loadVars, sessVars>>

\* Line 121: CREATE SCHEMA public
RecreateCreateSchema ==
    /\ op.name = "recreate_db"
    /\ op.pc = "create_schema"
    /\ \/ /\ CreateSchemaError(public, tx) = "none"
          /\ tx' = CreateSchema(public, tx)
          /\ op' = [op EXCEPT !.pc = "create_all",
                              !.logs = @ \cup {"info:schema_recreated"}]
          /\ UNCHANGED public
       \/ /\ CreateSchemaError(public, tx) # "none"
          /\ Raise(CreateSchemaError(public, tx), FALSE, tx)
       \/ Raise("create_schema", TRUE, tx)
    /\ UNCHANGED <<prev, counters, loadVars, sessVars>>

\* Faulty variant of RecreateCreateAll: the tables are not created again.
RecreateWithoutCreateAll ==
    /\ op.name = "recreate_db"
    /\ op.pc = "create_all"
    /\ op' = [op EXCEPT !.pc = "commit"]
    /\ UNCHANGED <<public, tx, prev, counters, loadVars, sessVars>>

\* Line 128: conn.run_sync(Base.metadata.create_all)
RecreateCreateAll == op.name = "recreate_db" /\ CreateAll(RecreateCheckFirst)

RecreateCommit == op.name = "recreate_db" /\ Commit("warning:operation_complete")

RecreateExcept == op.name = "recreate_db" /\ Except("error:recreate_failed")

\* The application, through a session of get_db(), inserts a row into a
\* table.  A table the running transaction has dropped is locked until the
\* transaction ends.
AppWrite(n) ==
    /\ n \in DOMAIN public.tables
    /\ n \notin tx.dropped
    /\ counters.row <= MaxRows
    /\ public' = [public EXCEPT !.tables[n].rows = @ \cup {counters.row}]
    /\ counters' = [counters EXCEPT !.row = @ + 1]
    /\ UNCHANGED <<tx, op, prev, loadVars, sessVars>>

NextSchema ==
    \/ InitDbCall
    \/ InitDbBegin
    \/ InitDbCreateAll
    \/ InitDbCommit
    \/ InitDbExcept
    \/ RecreateCall
    \/ RecreateBegin
    \/ RecreateDrop
    \/ RecreateCreateSchema
    \/ RecreateCreateAll
    \/ RecreateCommit
    \/ RecreateExcept
    \/ \E n \in AllTables : AppWrite(n)

SpecLoad == InitLoad /\ [][NextLoad]_vars

SpecSessions == InitSessions /\ [][NextSessions]_vars

SpecSchema == InitSchema /\ [][NextSchema]_vars

\* =============================================================== claims

\* The names that are unset or empty in an environment.
MissingSet(e) == {k \in RequiredNames : k \notin DOMAIN e \/ e[k] = <<>>}

Elements(q) == {q[i] : i \in DOMAIN q}

\* The existence check is enabled: DB_AUTO_CREATE is unset or "1".
AutoEnabled(p) ==
    "DB_AUTO_CREATE" \notin DOMAIN env[p] \/ env[p]["DB_AUTO_CREATE"] = <<"1">>

\* Process p has returned from _ensure_database_exists.
Returned(p) == "ensure_return" \in Elements(proc[p].events)

\* The steps of the try block that fail only when the environment fails them.
EnvFaults == {"create_engine", "connect", "query", "create"}

\* The startup sequence, in the order of the module's top-level code.
StartupOrder == <<"validated", "ensure_call", "ensure_return", "engine", "ready">>

IsPrefix(a, b) == Len(a) <= Len(b) /\ \A i \in DOMAIN a : a[i] = b[i]

\* C2: whenever a non-empty set S of the five required variables is unset or
\* empty, the load fails with a ValueError that lists exactly the names in S,
\* each once, and goes no further; when S is empty no configuration error is
\* raised.
C2_MissingListedExactly ==
    \A p \in Procs :
        proc[p].pc # "start" =>
            IF MissingSet(env[p]) # {}
            THEN /\ proc[p].pc = "config_error"
                 /\ proc[p].raised.type = "ValueError"
                 /\ Elements(proc[p].raised.names) = MissingSet(env[p])
                 /\ Len(proc[p].raised.names) = Cardinality(MissingSet(env[p]))
                 /\ proc[p].events = <<>>
                 /\ ~proc[p].engine.built
            ELSE /\ proc[p].pc # "config_error"
                 /\ proc[p].raised.type # "ValueError"

\* A load failed with one variable unset and another one empty.
C2_Witness ==
    \E p \in Procs :
        /\ proc[p].pc = "config_error"
        /\ "DB_PORT" \notin DOMAIN env[p]
        /\ "DB_USER" \in DOMAIN env[p]
        /\ MissingSet(env[p]) = {"DB_PORT", "DB_USER"}
        /\ proc[p].raised.names = <<"DB_PORT", "DB_USER">>

\* C3: with the existence check enabled in every process and the target
\* database absent at the start, once every process has returned from the
\* check (none of them failed by the environment), the database has been
\* created exactly once, it exists under its name, and no process raised.
C3_CreatedExactlyOnce ==
    ( /\ \A p \in Procs :
            /\ AutoEnabled(p)
            /\ Returned(p)
            /\ proc[p].failed \notin EnvFaults
      /\ ~CatalogHas(databases0, DB_NAME(1)) )
    => /\ createCount = 1
       /\ CatalogHas(databases, DB_NAME(1))
       /\ \A p \in Procs : proc[p].raised = NoError

\* The same for a target name that is a lower-case identifier: the race is
\* benign there.
C3_LowerCaseNameCreatedOnce ==
    ( /\ \A p \in Procs :
            /\ AutoEnabled(p)
            /\ Returned(p)
            /\ proc[p].failed \notin EnvFaults
      /\ ~CatalogHas(databases0, DB_NAME(1))
      /\ DB_NAME(1) = <<"m">> )
    => /\ createCount = 1
       /\ CatalogHas(databases, DB_NAME(1))
       /\ \A p \in Procs : proc[p].raised = NoError

\* C7: a failure of any step of the existence check is logged and
\* swallowed: the only exception a module load ends with is the
\* configuration error, a process whose check failed has returned from it
\* with the error logged, and a process that has returned from the check
\* can go on to construct the pooled engine.
C7_EnsureFailureSwallowed ==
    \A p \in Procs :
        /\ proc[p].raised.type \in {"none", "ValueError"}
        /\ (proc[p].failed # "none" /\ proc[p].pc # "except") =>
              /\ "error:auto_create_failed" \in proc[p].logs
              /\ Returned(p)
              /\ proc[p].pc \in {"ensured", "engine", "ready"}
              /\ proc[p].raised = NoError
        /\ proc[p].pc = "ensured" => ENABLED BuildEngine(p)

\* One process's connection failed, another's CREATE DATABASE was refused,
\* and both constructed the engine.
C7_Witness ==
    \E p, q \in Procs :
        /\ proc[p].failed = "connect"
        /\ proc[p].engine.built
        /\ proc[q].failed = "already_exists"
        /\ proc[q].engine.built

\* C8: with DB_AUTO_CREATE set to anything but "1" the check opens no
\* administrative connection and sends no statement; otherwise CREATE
\* DATABASE is sent only after the catalog query, and only when the query
\* found no row.
C8_AutoCreateSwitch ==
    \A p \in Procs :
        /\ ~AutoEnabled(p) =>
              /\ proc[p].adminConns = 0
              /\ proc[p].statements = <<>>
              /\ proc[p].failed = "none"
        /\ \A i \in DOMAIN proc[p].statements :
              proc[p].statements[i] = "CREATE" =>
                 /\ i = 2
                 /\ proc[p].statements[1] = "SELECT"
                 /\ proc[p].exists = "absent"
                 /\ proc[p].adminConns = 1

\* A process with DB_AUTO_CREATE="true" is ready without having connected,
\* and another has sent CREATE DATABASE.
C8_Witness ==
    \E p, q \in Procs :
        /\ "DB_AUTO_CREATE" \in DOMAIN env[p]
        /\ env[p]["DB_AUTO_CREATE"] = <<"t">>
        /\ proc[p].pc = "ready"
        /\ proc[p].adminConns = 0
        /\ proc[q].statements = <<"SELECT", "CREATE">>

\* The startup sequence of p so far is an initial part of the module's
\* order: validation, the call of the check, its return, the engine.
StartupInOrder(p) ==
    /\ IsPrefix(proc[p].events, StartupOrder)
    /\ proc[p].engine.built <=> "engine" \in Elements(proc[p].events)
    /\ proc[p].pc = "start" => proc[p].events = <<>>

\* C9 as stated: the startup sequence keeps its order, and the pooled engine
\* is never constructed while the target database is missing.
C9_EngineNeverWithoutDatabase ==
    \A p \in Procs :
        /\ StartupInOrder(p)
        /\ proc[p].engine.built => proc[p].dbAtEngine = "present"

\* C9 as amended: validation precedes the existence check, the check is
\* called once and has returned before the pooled engine is constructed;
\* the database is known to exist then when the catalog query found it;
\* a constructed engine stays constructed and the process never returns to
\* its unconfigured start.
C9_StartupOrder ==
    /\ [](\A p \in Procs :
            /\ StartupInOrder(p)
            /\ (proc[p].engine.built /\ proc[p].exists = "found") =>
                  proc[p].dbAtEngine = "present")
    /\ [][\A p \in Procs :
            /\ proc[p].pc # "start" => proc'[p].pc # "start"
            /\ proc[p].engine.built =>
                  proc'[p].engine.built /\ proc'[p].pc \in {"engine", "ready"}]_vars

\* An engine was constructed, after a check that was switched off, while the
\* database was missing; another after a check that created the database.
C9_Witness ==
    \E p, q \in Procs :
        /\ proc[p].pc = "ready"
        /\ ~AutoEnabled(p)
        /\ proc[p].dbAtEngine = "missing"
        /\ proc[q].pc = "ready"
        /\ proc[q].statements = <<"SELECT", "CREATE">>
        /\ proc[q].dbAtEngine = "present"

TableIds(pub) == [n \in DOMAIN pub.tables |-> pub.tables[n].oid]

Oids(pub) == {pub.tables[n].oid : n \in DOMAIN pub.tables}

RowsOf(pub) == UNION {pub.tables[n].rows : n \in DOMAIN pub.tables}

\* Every table of a is in b, the same object, with at least the rows it had.
Kept(a, b) ==
    \A n \in DOMAIN a.tables :
        /\ n \in DOMAIN b.tables
        /\ b.tables[n].oid = a.tables[n].oid
        /\ a.tables[n].rows \subseteq b.tables[n].rows

\* C4: when recreate_db() has returned normally, the public schema exists,
\* its tables are exactly those of the metadata, none of them is an object
\* that existed before the call, and every row in them was inserted after
\* the call's transaction committed.
C4_RecreateLeavesOnlyMetadata ==
    (op.name = "recreate_db" /\ op.pc = "done" /\ op.result = "returned") =>
        /\ public.exists
        /\ DOMAIN public.tables = MetaTables
        /\ Oids(public) \cap Oids(op.pre) = {}
        /\ \A r \in RowsOf(public) : r >= op.mark
        /\ RowsOf(op.pre) \cap RowsOf(public) = {}

\* recreate_db() returned on a database that held rows and a table no model
\* defines.
C4_Witness ==
    /\ op.name = "recreate_db" /\ op.pc = "done" /\ op.result = "returned"
    /\ "alembic_version" \in DOMAIN op.pre.tables
    /\ "users" \in DOMAIN op.pre.tables
    /\ Cardinality(RowsOf(op.pre)) = MaxRows

\* C5: init_db() never drops or recreates a table that exists and never
\* loses a row; unless the environment fails one of its steps it returns
\* normally with every table of the metadata present; and after a second
\* init_db() in a row the tables are the same objects as after the first.
C5_InitDbIdempotent ==
    op.name = "init_db" =>
        /\ Kept(op.pre, public)
        /\ (op.pc = "done" /\ ~op.envFault) =>
              /\ op.result = "returned"
              /\ MetaTables \subseteq DOMAIN public.tables
        /\ (op.pc = "done" /\ prev.name = "init_db" /\ prev.result = "returned") =>
              /\ TableIds(public) = TableIds(prev.post)
              /\ Kept(prev.post, public)

\* init_db() returned twice in a row, the first time having created tables
\* beside rows that were already there.
C5_Witness ==
    /\ op.name = "init_db" /\ op.pc = "done" /\ op.result = "returned"
    /\ prev.name = "init_db" /\ prev.result = "returned"
    /\ op.pre = prev.post
    /\ Oids(prev.post) \ (1..(FirstFreeOid - 1)) # {}
    /\ RowsOf(op.pre) # {}

\* C6: a call of init_db() or recreate_db() one of whose steps failed never
\* returns normally: it ends by raising, with the error logged.
C6_FailureReraised ==
    /\ op.result = "returned" => op.failed = "none"
    /\ op.pc = "except" => op.result = "none"
    /\ (op.pc = "done" /\ op.failed # "none") =>
          /\ op.result = "raised"
          /\ op.name = "init_db" => "error:init_failed" \in op.logs
          /\ op.name = "recreate_db" => "error:recreate_failed" \in op.logs

\* recreate_db() raised after its commit failed, following an init_db()
\* that raised as well.
C6_Witness ==
    /\ op.name = "recreate_db" /\ op.pc = "done"
    /\ op.failed = "commit" /\ op.result = "raised"
    /\ prev.name = "init_db" /\ prev.result = "raised"

\* C10: the public schema is never seen dropped; until recreate_db()'s
\* transaction commits (and so after any failure of DROP SCHEMA, CREATE
\* SCHEMA or create_all) the committed tables are the objects they were
\* before the call, with no row lost; once it has committed they are
\* exactly the metadata's tables; so metadata tables that existed before the
\* call are never seen missing.
C10_RecreateAtomic ==
    /\ public.exists
    /\ op.name = "recreate_db" =>
          /\ ~op.committed =>
                /\ TableIds(public) = TableIds(op.pre)
                /\ Kept(op.pre, public)
          /\ op.committed => DOMAIN public.tables = MetaTables
          /\ MetaTables \subseteq DOMAIN op.pre.tables =>
                MetaTables \subseteq DOMAIN public.tables

\* recreate_db() raised because create_all failed, after the schema had been
\* dropped and created again inside the transaction, on a populated database.
C10_Witness ==
    /\ op.name = "recreate_db" /\ op.pc = "done"
    /\ op.failed = "create_all" /\ op.result = "raised"
    /\ "warning:schema_dropped" \in op.logs
    /\ RowsOf(op.pre) # {}
    /\ RowsOf(public) = RowsOf(op.pre)

====
